---- MODULE Spec2Model ----
(***************************************************************************)
(* NewsAnalyzer (news_analyzer.py) and MyScraper (page_scraper.py).        *)
(*                                                                         *)
(* NewsAnalyzer.run starts two asyncio tasks, show_news_info and           *)
(* get_links_rating.  asyncio is cooperative: a task runs alone until it   *)
(* suspends at an await that cannot complete at once, and the event loop   *)
(* then runs the next task of its FIFO ready queue.  `running` is the task *)
(* that holds the loop, `ready` is the loop's ready queue.                 *)
(***************************************************************************)
EXTENDS Naturals, Sequences, FiniteSets

VARIABLES
    news_links,         \* self.__news_links
    vocabulary_source,  \* self.__vocabulary_source
    work_status,        \* self.__work_status
    bad_vocabulary,     \* self.__bad_vocabulary
    news_info,          \* self.__news_info, the asyncio.Queue, oldest first
    ready,              \* the event loop's ready queue of tasks
    running,            \* the task that holds the event loop, or "none"
    pc_show,            \* position of the show_news_info task
    pc_rate,            \* position of the get_links_rating task
    idx,                \* position of get_links_rating's for loop in news_links
    response,           \* what the awaited fetch of scrap_news_page delivered
    loaded,             \* what the awaited vocabulary load delivered
    news_words,         \* get_rating's local news_words
    raised,             \* the exception that left get_links_rating, or "none"
    printed,            \* the records show_news_info printed, in order
    gets,               \* positions of news_links an HTTP GET was issued for
    loads,              \* number of vocabulary loads started
    outcome,            \* per position of news_links: what its fetch delivered
    put_log,            \* every put_nowait so far: the position in news_links and the item
    scraper,            \* the MyScraper construction attempted, or "none"
    callers             \* tasks that call get_bad_vocabulary of one object directly

vars == <<news_links, vocabulary_source, work_status, bad_vocabulary, news_info,
          ready, running, pc_show, pc_rate, idx, response, loaded, news_words,
          raised,
          printed, gets, loads, outcome, put_log, scraper, callers>>

-----------------------------------------------------------------------------
(* Bounds of the model *)

MaxLinks == 2

\* Tasks that call get_bad_vocabulary at the same time
NumCallers == 3

-----------------------------------------------------------------------------
(* Module constants of news_analyzer.py *)

\* A URL is a sequence of text chunks; NEWS_SITES holds one site of one chunk.
NEWS_SITES == << <<"https://inosmi.ru">> >>

FILE_SOURCE == 0
URL_SOURCE == 1
IS_RUN == 0
IS_STOP == 1

FETCH_ERROR == "FETCH_ERROR"
PARSING_ERROR == "PARSING_ERROR"
TIMEOUT_ERROR == "TIMEOUT"
SUCCESS_STATUS == "OK"

\* A vocabulary_source that is neither FILE_SOURCE nor URL_SOURCE.
OtherSource == URL_SOURCE + 1

\* The links a caller may submit: two on the allow-list, one outside it.
LinkA == <<"https://inosmi.ru", "/economic/a.html">>
LinkB == <<"https://inosmi.ru", "/economic/b.html">>
LinkX == <<"https://bad-domain.test", "/x">>
Links == {LinkA, LinkB, LinkX}

LinkLists == UNION {[1..n -> Links] : n \in 0..MaxLinks}

-----------------------------------------------------------------------------
(* Pure functions *)

\* `site in url_link` of Python: site occurs as a contiguous part of url_link.
Contains(url_link, site) ==
    \E i \in 0..Len(url_link) :
        /\ i + Len(site) <= Len(url_link)
        /\ SubSeq(url_link, i + 1, i + Len(site)) = site

\* The loop returns True for the first site, whatever the link.
is_news_link_first_site(url_link) == Len(NEWS_SITES) > 0

is_news_link(url_link) ==
    \E k \in 1..Len(NEWS_SITES) : Contains(url_link, NEWS_SITES[k])

\* NewsInfo(url, status, rate=0, words_count=0)
NewsInfo(url, status, rate, words_count) ==
    [url |-> url, status |-> status, rate |-> rate, words_count |-> words_count]

NewsInfoDefault(url, status) == NewsInfo(url, status, 0, 0)

\* adapters.inosmi_ru.sanitize: the article's text, ArticleNotFound without one.
SanitizeRaises(html) == ~html.article
sanitize(html) == html.text

\* text_tools.split_by_words: the words of the text without punctuation tokens.
split_by_words(text) == SelectSeq(text, LAMBDA w : w # "-")

\* text_tools.calculate_jaundice_rate, in hundredths; 0 for an article of no words.
calculate_jaundice_rate(article_words, charged_words) ==
    IF Len(article_words) = 0 THEN 0
    ELSE (Cardinality({i \in 1..Len(article_words) :
                \E j \in 1..Len(charged_words) :
                    charged_words[j] = article_words[i]}) * 100)
         \div Len(article_words)

-----------------------------------------------------------------------------
(* What the collaborators can deliver *)

PageArticle == [article |-> TRUE, text |-> <<"scandal", "-", "today">>]
PageNoArticle == [article |-> FALSE, text |-> <<>>]
Pages == {PageArticle, PageNoArticle}

\* The body of a response that has none.
NoPage == PageNoArticle

\* session_ctx.get under async_timeout.timeout: a response with its status and
\* body, asyncio.TimeoutError with the timeout expired or not, or a transport
\* error of aiohttp.
FetchResults ==
    {[exc |-> "none", status |-> 200, expired |-> FALSE, html |-> p] : p \in Pages}
    \cup {[exc |-> "none", status |-> 500, expired |-> FALSE, html |-> NoPage]}
    \cup {[exc |-> "TimeoutError", status |-> 0, expired |-> e, html |-> NoPage] :
            e \in BOOLEAN}
    \cup {[exc |-> "ClientError", status |-> 0, expired |-> FALSE, html |-> NoPage]}

Vocabularies == {<<>>, <<"scandal">>}

\* get_negative_words_from_file / get_negative_words_from_url
LoadResults(source) ==
    {[exc |-> "none", words |-> v] : v \in Vocabularies}
    \cup (IF source = FILE_SOURCE
          THEN {[exc |-> "FileNotFoundError", words |-> <<>>]}
          ELSE {[exc |-> "BadResponse", words |-> <<>>]})

\* No fetch result yet.
Pending == [exc |-> "pending", status |-> 0, expired |-> FALSE, html |-> NoPage]

\* scrap_news_page raised ArticleNotFound before any request.
Rejected == [exc |-> "ArticleNotFound", status |-> 0, expired |-> FALSE, html |-> NoPage]

NoLoad == [exc |-> "pending", words |-> <<>>]

-----------------------------------------------------------------------------
(* Init: the state after NewsAnalyzer.__init__ and run's two start_soon calls *)

Init ==
    /\ news_links \in LinkLists
    /\ vocabulary_source \in {FILE_SOURCE, URL_SOURCE, OtherSource}
    /\ work_status = IS_RUN
    /\ bad_vocabulary = <<>>
    /\ news_info = <<>>
    /\ ready = <<"show", "rate">>
    /\ running = "none"
    /\ pc_show = "loop"
    /\ pc_rate = "loop"
    /\ idx = 1
    /\ response = Pending
    /\ loaded = NoLoad
    /\ news_words = <<>>
    /\ raised = "none"
    /\ printed = <<>>
    /\ gets = <<>>
    /\ loads = 0
    /\ outcome = [i \in 1..Len(news_links) |-> Pending]
    /\ put_log = <<>>
    /\ scraper = [state |-> "none", arg |-> <<>>, news_link |-> <<>>]
    /\ callers = <<>>

-----------------------------------------------------------------------------
(* The event loop *)

\* The loop hands itself to the oldest ready task.
Schedule ==
    /\ running = "none"
    /\ ready # <<>>
    /\ running' = Head(ready)
    /\ ready' = Tail(ready)
    /\ UNCHANGED <<news_links, vocabulary_source, work_status, bad_vocabulary,
                   news_info, pc_show, pc_rate, idx, response, loaded, news_words,
                   raised, printed, gets, loads, outcome, put_log, scraper, callers>>

-----------------------------------------------------------------------------
(* show_news_info *)

\* The while test, then Queue.get on a queue that has an item (no suspension)
\* or on an empty one (the task registers a getter and suspends).
show_news_info ==
    /\ running = "show"
    /\ pc_show = "loop"
    /\ IF work_status = IS_STOP
       THEN /\ pc_show' = "done"
            /\ running' = "none"
            /\ UNCHANGED <<news_info, printed>>
       ELSE IF news_info = <<>>
       THEN /\ pc_show' = "waiting"
            /\ running' = "none"
            /\ UNCHANGED <<news_info, printed>>
       ELSE /\ printed' = Append(printed, Head(news_info))
            /\ news_info' = Tail(news_info)
            /\ UNCHANGED <<pc_show, running>>
    /\ UNCHANGED <<news_links, vocabulary_source, work_status, bad_vocabulary,
                   ready, pc_rate, idx, response, loaded, news_words, raised,
                   gets, loads, outcome, put_log, scraper, callers>>

\* Queue.get resumed by a put: it tests empty() again, takes the oldest item,
\* and show_news_info prints it.
show_news_info_resume ==
    /\ running = "show"
    /\ pc_show = "woken"
    /\ IF news_info = <<>>
       THEN /\ pc_show' = "waiting"
            /\ running' = "none"
            /\ UNCHANGED <<news_info, printed>>
       ELSE /\ printed' = Append(printed, Head(news_info))
            /\ news_info' = Tail(news_info)
            /\ pc_show' = "loop"
            /\ UNCHANGED running
    /\ UNCHANGED <<news_links, vocabulary_source, work_status, bad_vocabulary,
                   ready, pc_rate, idx, response, loaded, news_words, raised,
                   gets, loads, outcome, put_log, scraper, callers>>

-----------------------------------------------------------------------------
(* get_links_rating, with get_rating, scrap_news_page and get_bad_vocabulary *)

\* The item is put at the head of the queue instead of its end.
put_nowait_front(item) ==
    /\ news_info' = <<item>> \o news_info
    /\ put_log' = Append(put_log, [pos |-> idx, info |-> item])
    /\ pc_show' = IF pc_show = "waiting" THEN "woken" ELSE pc_show
    /\ ready' = IF pc_show = "waiting" THEN Append(ready, "show") ELSE ready

\* Queue.put_nowait: the item joins the queue and the oldest waiting getter,
\* if there is one, is made ready.
put_nowait(item) ==
    /\ news_info' = Append(news_info, item)
    /\ put_log' = Append(put_log, [pos |-> idx, info |-> item])
    /\ pc_show' = IF pc_show = "waiting" THEN "woken" ELSE pc_show
    /\ ready' = IF pc_show = "waiting" THEN Append(ready, "show") ELSE ready

\* A record is put for the URL at idx and the for loop goes on to the next URL.
Emit(item) ==
    /\ put_nowait(item)
    /\ idx' = idx + 1
    /\ pc_rate' = "loop"
    /\ UNCHANGED <<running, raised>>

\* An exception no except clause of get_links_rating names leaves it: the task
\* ends with it and run's task group cancels show_news_info at its await.
Propagate(exc) ==
    /\ raised' = exc
    /\ pc_rate' = "failed"
    /\ running' = "none"
    /\ pc_show' = IF pc_show \in {"waiting", "woken"} THEN "cancelled" ELSE pc_show
    /\ ready' = SelectSeq(ready, LAMBDA t : t # "show")
    /\ UNCHANGED <<news_info, put_log, idx>>

\* `if not self.__bad_vocabulary` of get_bad_vocabulary: an empty list is false.
VocabularyCached == bad_vocabulary # <<>>

\* The except clauses of get_links_rating.
Caught(exc) == exc \in {"BadResponse", "ArticleNotFound", "TimeElapsedError"}

\* The statuses of BadResponse and ArticleNotFound exchanged.
ErrorStatusExchanged(exc) ==
    IF exc = "BadResponse" THEN PARSING_ERROR
    ELSE IF exc = "ArticleNotFound" THEN FETCH_ERROR
    ELSE TIMEOUT_ERROR

ErrorStatus(exc) ==
    IF exc = "BadResponse" THEN FETCH_ERROR
    ELSE IF exc = "ArticleNotFound" THEN PARSING_ERROR
    ELSE TIMEOUT_ERROR

\* A caught exception makes the loop try the same URL again.
ExceptRetry(exc) ==
    IF Caught(exc)
    THEN /\ pc_rate' = "loop"
         /\ UNCHANGED <<news_info, put_log, pc_show, ready, idx, running, raised>>
    ELSE Propagate(exc)

\* get_rating(url) raised exc inside the try of get_links_rating.
Except(exc) ==
    IF Caught(exc)
    THEN Emit(NewsInfoDefault(news_links[idx], ErrorStatus(exc)))
    ELSE Propagate(exc)

\* The test of the response status is left out.
ScrapRaisesNoStatus(r) ==
    IF r.exc = "TimeoutError"
    THEN (IF r.expired THEN "TimeElapsedError" ELSE "TimeoutError")
    ELSE IF r.exc # "none" THEN r.exc
    ELSE IF r.status = 200 /\ SanitizeRaises(r.html) THEN "ArticleNotFound"
    ELSE "none"

\* The exception scrap_news_page raises for what the fetch delivered, "none"
\* when it returns the sanitized text.
ScrapRaises(r) ==
    IF r.exc = "TimeoutError"
    THEN (IF r.expired THEN "TimeElapsedError" ELSE "TimeoutError")
    ELSE IF r.exc # "none" THEN r.exc
    ELSE IF r.status # 200 THEN "BadResponse"
    ELSE IF SanitizeRaises(r.html) THEN "ArticleNotFound"
    ELSE "none"

\* The OK record is put before the rate and the word count are computed.
EmitRatingUnscored(words, charged) ==
    Emit(NewsInfo(news_links[idx], SUCCESS_STATUS, 0, 0))

\* The last two lines of get_rating.
EmitRating(words, charged) ==
    Emit(NewsInfo(news_links[idx], SUCCESS_STATUS,
                  calculate_jaundice_rate(words, charged), Len(words)))

\* The loop left one URL early.
LoopEndedEarly == idx >= Len(news_links)

\* `for url in self.news_links` has no URL left.
LoopEnded == idx > Len(news_links)

\* The for loop takes the next URL and get_rating calls scrap_news_page, which
\* raises ArticleNotFound for a link that is no news link and otherwise issues
\* the GET and suspends; after the last URL the loop ends.
get_links_rating ==
    /\ running = "rate"
    /\ pc_rate = "loop"
    /\ IF LoopEnded
       THEN /\ pc_rate' = "exit"
            /\ UNCHANGED <<news_info, put_log, pc_show, ready, idx, running,
                           raised, gets, outcome>>
       ELSE IF ~is_news_link(news_links[idx])
       THEN /\ outcome' = [outcome EXCEPT ![idx] = Rejected]
            /\ Except("ArticleNotFound")
            /\ UNCHANGED gets
       ELSE /\ gets' = Append(gets, idx)
            /\ pc_rate' = "fetching"
            /\ running' = "none"
            /\ UNCHANGED <<news_info, put_log, pc_show, ready, idx, raised,
                           outcome>>
    /\ UNCHANGED <<news_links, vocabulary_source, work_status, bad_vocabulary,
                   response, loaded, news_words, printed, loads, scraper, callers>>

\* The fetch ends: the response arrived, the timeout fired, or the transport
\* failed; the event loop makes the task ready again.
FetchDone(r) ==
    /\ running = "none"
    /\ pc_rate = "fetching"
    /\ response' = r
    /\ outcome' = [outcome EXCEPT ![idx] = r]
    /\ pc_rate' = "fetched"
    /\ ready' = Append(ready, "rate")
    /\ UNCHANGED <<news_links, vocabulary_source, work_status, bad_vocabulary,
                   news_info, running, pc_show, idx, loaded, news_words, raised,
                   printed, gets, loads, put_log, scraper, callers>>

\* scrap_news_page resumes with what the fetch delivered; when it returns the
\* text, get_rating splits it and calls get_bad_vocabulary, which returns the
\* cached list, starts a load and suspends, or raises InvalidSourceType.
get_rating ==
    /\ running = "rate"
    /\ pc_rate = "fetched"
    /\ IF ScrapRaises(response) # "none"
       THEN /\ Except(ScrapRaises(response))
            /\ UNCHANGED <<news_words, loads>>
       ELSE /\ news_words' = split_by_words(sanitize(response.html))
            /\ IF VocabularyCached
               THEN /\ EmitRating(news_words', bad_vocabulary)
                    /\ UNCHANGED loads
               ELSE IF vocabulary_source \in {FILE_SOURCE, URL_SOURCE}
               THEN /\ loads' = loads + 1
                    /\ pc_rate' = "loading"
                    /\ running' = "none"
                    /\ UNCHANGED <<news_info, put_log, pc_show, ready, idx, raised>>
               ELSE /\ Except("InvalidSourceType")
                    /\ UNCHANGED loads
    /\ UNCHANGED <<news_links, vocabulary_source, work_status, bad_vocabulary,
                   response, loaded, printed, gets, outcome, scraper, callers>>

\* The vocabulary load ends with a word list or an exception.
LoadDone(l) ==
    /\ running = "none"
    /\ pc_rate = "loading"
    /\ loaded' = l
    /\ pc_rate' = "loaded"
    /\ ready' = Append(ready, "rate")
    /\ UNCHANGED <<news_links, vocabulary_source, work_status, bad_vocabulary,
                   news_info, running, pc_show, idx, response, news_words, raised,
                   printed, gets, loads, outcome, put_log, scraper, callers>>

\* get_bad_vocabulary resumes: it stores and returns the loaded list, and
\* get_rating puts the OK record; or the load's exception is raised.
get_bad_vocabulary ==
    /\ running = "rate"
    /\ pc_rate = "loaded"
    /\ IF loaded.exc = "none"
       THEN /\ bad_vocabulary' = loaded.words
            /\ EmitRating(news_words, bad_vocabulary')
       ELSE /\ Except(loaded.exc)
            /\ UNCHANGED bad_vocabulary
    /\ UNCHANGED <<news_links, vocabulary_source, work_status, response, loaded,
                   news_words, printed, gets, loads, outcome, scraper, callers>>

\* The end of `async with anyio.create_task_group()` in get_links_rating: the
\* group has no child task; its exit returns at once or after one checkpoint of
\* the event loop, depending on the anyio release.
task_group_exit ==
    /\ running = "rate"
    /\ pc_rate = "exit"
    /\ pc_rate' = "stopping"
    /\ \/ UNCHANGED <<running, ready>>
       \/ /\ running' = "none"
          /\ ready' = Append(ready, "rate")
    /\ UNCHANGED <<news_links, vocabulary_source, work_status, bad_vocabulary,
                   news_info, pc_show, idx, response, loaded, news_words, raised,
                   printed, gets, loads, outcome, put_log, scraper, callers>>

\* The assignment of IS_STOP is left out (or sits inside the for loop's body).
set_work_status_skipped ==
    /\ running = "rate"
    /\ pc_rate = "stopping"
    /\ pc_rate' = "done"
    /\ running' = "none"
    /\ UNCHANGED <<news_links, vocabulary_source, work_status, bad_vocabulary,
                   news_info, ready, pc_show, idx, response, loaded, news_words,
                   raised, printed, gets, loads, outcome, put_log, scraper, callers>>

\* self.__work_status = IS_STOP, and the task ends.
set_work_status ==
    /\ running = "rate"
    /\ pc_rate = "stopping"
    /\ work_status' = IS_STOP
    /\ pc_rate' = "done"
    /\ running' = "none"
    /\ UNCHANGED <<news_links, vocabulary_source, bad_vocabulary, news_info,
                   ready, pc_show, idx, response, loaded, news_words, raised,
                   printed, gets, loads, outcome, put_log, scraper, callers>>

-----------------------------------------------------------------------------
(* MyScraper of page_scraper.py *)

\* MyScraper.__init__(news_link)
MyScraperInit(news_link) ==
    /\ scraper.state = "none"
    /\ scraper' = IF ~is_news_link(news_link)
                  THEN [state |-> "InvalidNewsLink", arg |-> news_link,
                        news_link |-> <<>>]
                  ELSE [state |-> "constructed", arg |-> news_link,
                        news_link |-> news_link]
    /\ UNCHANGED <<news_links, vocabulary_source, work_status, bad_vocabulary,
                   news_info, ready, running, pc_show, pc_rate, idx, response,
                   loaded, news_words, raised, printed, gets, loads, outcome,
                   put_log, callers>>

-----------------------------------------------------------------------------
(* The specification *)

Next ==
    \/ Schedule
    \/ show_news_info
    \/ show_news_info_resume
    \/ get_links_rating
    \/ \E r \in FetchResults : FetchDone(r)
    \/ get_rating
    \/ \E l \in LoadResults(vocabulary_source) : LoadDone(l)
    \/ get_bad_vocabulary
    \/ task_group_exit
    \/ set_work_status
    \/ \E link \in Links : MyScraperInit(link)

Spec == Init /\ [][Next]_vars

-----------------------------------------------------------------------------
(* get_bad_vocabulary of one object, called by NumCallers tasks of one event *)
(* loop: each task runs alone up to its await of the load.                  *)

analyzer == <<news_links, work_status, news_info, ready, running, pc_show,
              pc_rate, idx, response, loaded, news_words, raised, printed, gets,
              outcome, put_log, scraper>>

InitVoc ==
    /\ news_links = <<>>
    /\ vocabulary_source \in {FILE_SOURCE, URL_SOURCE, OtherSource}
    /\ work_status = IS_RUN
    /\ bad_vocabulary = <<>>
    /\ news_info = <<>>
    /\ ready = <<>>
    /\ running = "none"
    /\ pc_show = "loop"
    /\ pc_rate = "loop"
    /\ idx = 1
    /\ response = Pending
    /\ loaded = NoLoad
    /\ news_words = <<>>
    /\ raised = "none"
    /\ printed = <<>>
    /\ gets = <<>>
    /\ loads = 0
    /\ outcome = <<>>
    /\ put_log = <<>>
    /\ scraper = [state |-> "none", arg |-> <<>>, news_link |-> <<>>]
    /\ callers = [c \in 1..NumCallers |-> [pc |-> "idle", exc |-> "none", ret |-> <<>>]]

\* Task c calls get_bad_vocabulary: the cached list is returned, a load is
\* started and awaited, or InvalidSourceType is raised.
get_bad_vocabulary_call(c) ==
    /\ callers[c].pc = "idle"
    /\ IF VocabularyCached
       THEN /\ callers' = [callers EXCEPT ![c].pc = "returned",
                                          ![c].ret = bad_vocabulary]
            /\ UNCHANGED loads
       ELSE IF vocabulary_source \in {FILE_SOURCE, URL_SOURCE}
       THEN /\ callers' = [callers EXCEPT ![c].pc = "loading"]
            /\ loads' = loads + 1
       ELSE /\ callers' = [callers EXCEPT ![c].pc = "raised",
                                          ![c].exc = "InvalidSourceType"]
            /\ UNCHANGED loads
    /\ UNCHANGED <<vocabulary_source, bad_vocabulary>>
    /\ UNCHANGED analyzer

\* The load of task c ends: the list is stored in self.__bad_vocabulary and
\* returned, or the load's exception is raised.
get_bad_vocabulary_return(c, l) ==
    /\ callers[c].pc = "loading"
    /\ IF l.exc = "none"
       THEN /\ bad_vocabulary' = l.words
            /\ callers' = [callers EXCEPT ![c].pc = "returned",
                                          ![c].ret = bad_vocabulary']
       ELSE /\ callers' = [callers EXCEPT ![c].pc = "raised", ![c].exc = l.exc]
            /\ UNCHANGED bad_vocabulary
    /\ UNCHANGED <<vocabulary_source, loads>>
    /\ UNCHANGED analyzer

NextVoc ==
    \/ \E c \in 1..NumCallers : get_bad_vocabulary_call(c)
    \/ \E c \in 1..NumCallers : \E l \in LoadResults(vocabulary_source) :
           get_bad_vocabulary_return(c, l)

SpecVoc == InitVoc /\ [][NextVoc]_vars

-----------------------------------------------------------------------------
(* Properties *)

Positions == 1..Len(news_links)

\* The places of put_log that hold a record for position i of news_links.
PutsOf(i) == {k \in 1..Len(put_log) : put_log[k].pos = i}

\* The link matches the site allow-list.
OnAllowList(url) == \E k \in 1..Len(NEWS_SITES) : Contains(url, NEWS_SITES[k])

\* The fetch outcomes that are failures of one URL's fetch.
FetchFailures ==
    {"BadResponse", "ArticleNotFound", "TimeElapsedError", "TimeoutError",
     "ClientError"}

\* get_links_rating has ended, by returning or by an exception.
RatingEnded == pc_rate \in {"done", "failed"}

\* C1: when get_links_rating has ended, whatever the fetches delivered, the
\* result queue was given exactly one NewsInfo per position of the submitted
\* list, carrying that position's URL: none missing, none twice.
C1_OneResultPerURL ==
    RatingEnded =>
        /\ Len(put_log) = Len(news_links)
        /\ \A i \in Positions :
               /\ Cardinality(PutsOf(i)) = 1
               /\ \A k \in PutsOf(i) : put_log[k].info.url = news_links[i]

\* C2: when show_news_info has returned, every record that was put on the
\* result queue has been taken and printed once: the queue is empty and the
\* printed records are the put records.
C2_ReporterDrainsQueue ==
    pc_show = "done" =>
        /\ news_info = <<>>
        /\ printed = [k \in 1..Len(put_log) |-> put_log[k].info]

\* C3: once get_links_rating has set IS_STOP and returned, show_news_info is
\* not left suspended in the queue's get(), where no task remains to wake it.
C3_ReporterNotLeftBlocked ==
    (pc_rate = "done" /\ work_status = IS_STOP) => pc_show # "waiting"

\* C4: the per-URL tasks run concurrently: while the fetch of one URL is in
\* flight, every other submitted URL has been launched too (its GET is issued
\* or its result is already emitted).
C4_TasksRunConcurrently ==
    pc_rate = "fetching" =>
        \A j \in Positions :
            \/ \E g \in 1..Len(gets) : gets[g] = j
            \/ PutsOf(j) # {}

\* C5: no failure of a single URL's fetch leaves get_links_rating: it is never
\* ended by a fetch failure with URLs of the list left unprocessed.
C5_FetchFailureNeverPropagates ==
    pc_rate = "failed" => raised \notin FetchFailures

\* C6: work_status is IS_STOP only when every position of the submitted list
\* has had its NewsInfo put on the result queue.
C6_StopOnlyAfterAllEmitted ==
    work_status = IS_STOP => \A i \in Positions : PutsOf(i) # {}

C6_Witness ==
    /\ work_status = IS_STOP
    /\ Len(news_links) >= 2
    /\ \A i \in Positions : PutsOf(i) # {}

\* C7: the status of every emitted record follows the fetch outcome of its URL:
\* PARSING_ERROR for a link outside the allow-list, FETCH_ERROR for a response
\* that is not 200, TIMEOUT for an expired timeout; OK only for a fetched and
\* sanitized article, and such an article gets OK unless the vocabulary load
\* raised BadResponse; every record that is not OK has rate 0 and words_count 0.
C7_StatusFollowsOutcome ==
    \A k \in 1..Len(put_log) :
        LET i == put_log[k].pos
            info == put_log[k].info
            o == outcome[i]
            scored == o.exc = "none" /\ o.status = 200 /\ o.html.article
        IN  /\ ~OnAllowList(news_links[i]) => info.status = PARSING_ERROR
            /\ (o.exc = "none" /\ o.status # 200) => info.status = FETCH_ERROR
            /\ (o.exc = "TimeoutError" /\ o.expired) => info.status = TIMEOUT_ERROR
            /\ info.status = SUCCESS_STATUS => scored
            /\ scored =>
                 \/ /\ info.status = SUCCESS_STATUS
                    /\ info.words_count = Len(split_by_words(o.html.text))
                 \/ /\ info.status = FETCH_ERROR
                    /\ vocabulary_source = URL_SOURCE
            /\ info.status # SUCCESS_STATUS =>
                 (info.rate = 0 /\ info.words_count = 0)

C7_Witness ==
    /\ \E k \in 1..Len(put_log) :
           /\ put_log[k].info.status = SUCCESS_STATUS
           /\ put_log[k].info.words_count > 0
           /\ put_log[k].info.rate > 0
    /\ \E k \in 1..Len(put_log) :
           /\ put_log[k].info.status = TIMEOUT_ERROR
           /\ outcome[put_log[k].pos].expired

\* C8: single flight: of the tasks that call get_bad_vocabulary before the
\* vocabulary is cached at most one starts a load, and all that returned
\* observed the same vocabulary.
C8_SingleFlightLoad ==
    /\ Cardinality({c \in DOMAIN callers : callers[c].pc = "loading"}) <= 1
    /\ loads <= 1
    /\ \A c, d \in DOMAIN callers :
           (callers[c].pc = "returned" /\ callers[d].pc = "returned")
               => callers[c].ret = callers[d].ret

\* C9: once a call of get_bad_vocabulary has returned a vocabulary (get_rating
\* then put an OK record at once), no later call starts a load, whatever the
\* vocabulary was.
C9_NoLoadAfterSuccessfulReturn ==
    (\E k \in 1..Len(put_log) : put_log[k].info.status = SUCCESS_STATUS)
        => pc_rate \notin {"loading", "loaded"}

\* C10: for a link outside the allow-list no GET is ever issued, and once
\* get_links_rating has passed it a PARSING_ERROR record is emitted for it;
\* MyScraper constructed with such a link raises InvalidNewsLink.
C10_InvalidLinkRejectedBeforeRequest ==
    /\ \A i \in Positions :
           ~OnAllowList(news_links[i]) =>
               /\ \A g \in 1..Len(gets) : gets[g] # i
               /\ \A k \in PutsOf(i) : put_log[k].info.status = PARSING_ERROR
               /\ i < idx => PutsOf(i) # {}
    /\ (scraper.state # "none" /\ ~OnAllowList(scraper.arg))
           => scraper.state = "InvalidNewsLink"

C10_Witness ==
    /\ \E i \in Positions :
           /\ ~OnAllowList(news_links[i])
           /\ i < idx
           /\ \E k \in PutsOf(i) : put_log[k].info.status = PARSING_ERROR
    /\ Len(gets) > 0
    /\ scraper.state = "InvalidNewsLink"
    /\ ~OnAllowList(scraper.arg)

\* C11: with an empty URL list get_links_rating puts no NewsInfo and issues no
\* fetch or load, and the first (and only) thing it changes is work_status,
\* which is IS_STOP when it has returned.
C11_EmptyListStopsAtOnce ==
    news_links = <<>> =>
        /\ put_log = <<>>
        /\ news_info = <<>>
        /\ gets = <<>>
        /\ loads = 0
        /\ bad_vocabulary = <<>>
        /\ raised = "none"
        /\ pc_rate \in {"loop", "exit", "stopping", "done"}
        /\ (pc_rate = "done" <=> work_status = IS_STOP)

C11_Witness ==
    /\ news_links = <<>>
    /\ pc_rate = "done"
    /\ work_status = IS_STOP

\* C12: with a vocabulary source that is neither FILE_SOURCE nor URL_SOURCE no
\* fetch is ever issued and no result is ever emitted: InvalidSourceType is
\* raised before any per-URL work, for every URL list.
C12_InvalidSourceDetectedFirst ==
    vocabulary_source \notin {FILE_SOURCE, URL_SOURCE} =>
        /\ gets = <<>>
        /\ put_log = <<>>
        /\ (RatingEnded => raised = "InvalidSourceType")

\* C13: the records show_news_info printed are, in order, the first records
\* that were put on the result queue, and the queue holds the rest: nothing is
\* printed twice, out of order, or without having been put.
C13_PrintedIsPrefixOfPut ==
    /\ Len(printed) <= Len(put_log)
    /\ \A k \in 1..Len(printed) : printed[k] = put_log[k].info
    /\ printed \o news_info = [k \in 1..Len(put_log) |-> put_log[k].info]

C13_Witness ==
    /\ Len(printed) = 2
    /\ printed[1] # printed[2]
    /\ Len(put_log) = 2

\* The fetch of position i ended with the expired per-task timeout.
Expired(i) == outcome[i].exc = "TimeoutError" /\ outcome[i].expired

\* C14: once the expired timeout of URL i has been handled, the Reporter is
\* not cancelled, no OK record exists for i, and when get_links_rating has
\* ended every URL after i has its own record.
C14_TimeoutCancelsOnlyItsFetch ==
    \A i \in Positions :
        (Expired(i) /\ i < idx) =>
            /\ pc_show # "cancelled"
            /\ \A k \in PutsOf(i) : put_log[k].info.status # SUCCESS_STATUS
            /\ RatingEnded => \A j \in Positions : j > i => PutsOf(j) # {}

\* C15: a vocabulary load that failed is fatal to the run: once
\* get_bad_vocabulary has resumed from it, get_links_rating has ended with the
\* load's exception, and no record was put for the URL that was being scored.
C15_LoadFailureIsFatal ==
    (loaded.exc \in {"FileNotFoundError", "BadResponse"} /\ pc_rate # "loaded") =>
        /\ pc_rate = "failed"
        /\ raised = loaded.exc

\* The fetch of position i failed (or was refused before any request).
FetchFailed(i) ==
    \/ outcome[i].exc \in {"ArticleNotFound", "TimeoutError", "ClientError"}
    \/ outcome[i].exc = "none" /\ outcome[i].status # 200

\* C16: for a URL whose fetch failed no vocabulary load is started and no
\* scoring is done: while the loop is at it no load is in flight, it leaves the
\* cached vocabulary as it was, and its record carries no rate and no word count.
C16_FetchFailureShortCircuits ==
    \A i \in Positions :
        FetchFailed(i) =>
            /\ (idx = i => pc_rate \notin {"loading", "loaded"})
            /\ \A k \in PutsOf(i) :
                   /\ put_log[k].info.status # SUCCESS_STATUS
                   /\ put_log[k].info.rate = 0
                   /\ put_log[k].info.words_count = 0
            /\ (loads = 0 => bad_vocabulary = <<>>)

C16_Witness ==
    /\ \E i \in Positions : FetchFailed(i) /\ PutsOf(i) # {} /\ outcome[i].status = 500
    /\ \E i \in Positions : ~FetchFailed(i) /\ PutsOf(i) # {}
    /\ loads = 1

\* C17: a record for a URL is on the log only when that URL's fetch has ended
\* (or the link was refused) and the loop has left the URL; an OK record
\* carries the word count of the fetched article and a rate computed from its
\* words, so it was put after the scoring.
C17_ResultAfterFetchAndScore ==
    \A k \in 1..Len(put_log) :
        LET i == put_log[k].pos
            info == put_log[k].info
            words == split_by_words(sanitize(outcome[i].html))
        IN  /\ outcome[i].exc # "pending"
            /\ i < idx
            /\ \A g \in 1..Len(gets) :
                   gets[g] = i => ~(pc_rate = "fetching" /\ idx = i)
            /\ info.status = SUCCESS_STATUS =>
                   /\ outcome[i].exc = "none"
                   /\ info.words_count = Len(words)
                   /\ \E v \in Vocabularies :
                          info.rate = calculate_jaundice_rate(words, v)
                   /\ loads > 0

C17_Witness ==
    \E k \in 1..Len(put_log) :
        /\ put_log[k].info.status = SUCCESS_STATUS
        /\ put_log[k].info.rate > 0
        /\ put_log[k].pos = 2
        /\ outcome[1].exc = "TimeoutError"

\* The number of GETs issued for position i.
GetsOf(i) == Cardinality({g \in 1..Len(gets) : gets[g] = i})

\* C18: at most one GET is issued per position of the submitted list and at
\* most one record is put for it; the record of a failed attempt is put after
\* that attempt ended and carries the status of its failure.
C18_NoRetries ==
    \A i \in Positions :
        /\ GetsOf(i) <= 1
        /\ Cardinality(PutsOf(i)) <= 1
        /\ \A k \in PutsOf(i) :
               /\ GetsOf(i) = 1 => outcome[i].exc # "pending"
               /\ Expired(i) => put_log[k].info.status = TIMEOUT_ERROR
               /\ (outcome[i].exc = "none" /\ outcome[i].status # 200)
                      => put_log[k].info.status = FETCH_ERROR

C18_Witness ==
    /\ Len(news_links) = 2
    /\ news_links[1] = news_links[2]
    /\ GetsOf(1) = 1 /\ GetsOf(2) = 1
    /\ \E k \in PutsOf(1) : put_log[k].info.status = FETCH_ERROR
    /\ \E k \in PutsOf(2) : put_log[k].info.status = TIMEOUT_ERROR

\* The fetches in flight: a GET is issued and its result has not arrived.
InFlight == {i \in Positions : GetsOf(i) > 0 /\ outcome[i].exc = "pending"}

\* C19: the records put on the result queue are, in put order, the records of
\* the first URLs of the submitted list (the k-th record is that of the k-th
\* URL), the same holds of what was printed followed by what is queued, and at
\* most one fetch is in flight.
C19_SubmissionOrder ==
    /\ Len(put_log) <= Len(news_links)
    /\ \A k \in 1..Len(put_log) :
           /\ put_log[k].pos = k
           /\ put_log[k].info.url = news_links[k]
    /\ LET queued == printed \o news_info
       IN  /\ Len(queued) <= Len(news_links)
           /\ \A k \in 1..Len(queued) :
                  queued[k] = put_log[k].info /\ queued[k].url = news_links[k]
    /\ Cardinality(InFlight) <= 1

C19_Witness ==
    /\ Len(put_log) = 1
    /\ Len(news_links) = 2
    /\ news_links[1] # news_links[2]
    /\ InFlight = {2}

====
